---- MODULE Spec2Model ----
(***************************************************************************)
(* ResourceGlobMatcher (src/vs/workbench/common/resources.ts): the maps    *)
(* from workspace root to glob expression config and to parsed expression, *)
(* kept in sync by updateExcludes on configuration and workspace-folder    *)
(* events, and queried by matches.                                         *)
(* ResourceContextKey (same file): the five context keys set and reset     *)
(* for a resource.                                                         *)
(* EmbeddedCodeEditorWidget and EmbeddedDiffEditorWidget                   *)
(* (src/vs/editor/browser/widget/embeddedCodeEditorWidget.ts): the options *)
(* an embedded editor lays over its parent editor's configuration.         *)
(***************************************************************************)
EXTENDS Integers, Sequences, FiniteSets, TLC

VARIABLES
    folders,                    \* contextService.getWorkspace().folders
    settings,                   \* what globFn returns now, per root key and for no argument
    mapRootToParsedExpression,  \* Map<string, ParsedExpression>
    mapRootToExpressionConfig,  \* Map<string, IExpression>
    toUnbind,                   \* the disposables still held (emitter and both subscriptions)
    last,                       \* the last operation (construction, event, matches call
                                \* or dispose) and its outcome
    \* ResourceContextKey
    resourceKey,                \* _resourceKey
    schemeKey,                  \* _schemeKey
    filenameKey,                \* _filenameKey
    langIdKey,                  \* _langIdKey
    extensionKey,               \* _extensionKey
    \* EmbeddedCodeEditorWidget / EmbeddedDiffEditorWidget
    widget,                     \* which of the two classes the widget is
    parentOptions,              \* _parentEditor.getRawConfiguration()
    overwriteOptions,           \* _overwriteOptions
    editorOptions,              \* the raw options of the editor the widget extends
    registered,                 \* whether the parent's onDidChangeConfiguration listener is registered
    ui                          \* the last operation on the context key or the widget, with
                                \* the option sets it passed to super.updateOptions and,
                                \* for updateOptions, the options it was given

vars == <<folders, settings, mapRootToParsedExpression, mapRootToExpressionConfig,
          toUnbind, last>>

keyVars == <<resourceKey, schemeKey, filenameKey, langIdKey, extensionKey>>

widgetVars == <<widget, parentOptions, overwriteOptions, editorOptions, registered>>

uiVars == <<keyVars, widgetVars, ui>>

allVars == <<vars, uiVars>>

\* The longest workspace folder list the model explores.
MaxFolders == 2

----------------------------------------------------------------------------
\* URIs, paths and root keys

\* A filesystem path is the sequence of its segments as split on "/";
\* an absolute path starts with the empty segment.
WsPath    == <<"", "ws">>
SubPath   == <<"", "ws", "sub">>

FileURI(p) == [scheme |-> "file", path |-> p]

Roots == {FileURI(WsPath), FileURI(SubPath)}

Resources ==
    { FileURI(<<"", "ws", "src", "file.txt">>),
      FileURI(<<"", "ws", "a.log">>),
      FileURI(<<"", "ws", "sub", "src", "file.txt">>),
      FileURI(<<"", "src", "a.log">>),      \* outside every root
      FileURI(WsPath) }

\* uri.toString(): the scheme followed by the path
toString(uri) == <<uri.scheme>> \o uri.path

\* URI.parse(string)
URIparse(str) == [scheme |-> Head(str), path |-> Tail(str)]

\* uri.fsPath
fsPath(uri) == uri.path

\* ResourceGlobMatcher.NO_ROOT (null): the one key that is no URI string
NO_ROOT == <<>>

RootKeys == {toString(r) : r \in Roots}

Keys == RootKeys \cup {NO_ROOT}

Null == [null |-> TRUE]

WorkspaceFolder(u) == [uri |-> u]

Range(s) == {s[i] : i \in DOMAIN s}

IsPrefix(p, q) == Len(p) <= Len(q) /\ SubSeq(q, 1, Len(p)) = p

\* contextService.getWorkspaceFolder(resource): the folder of the workspace
\* that contains the resource (the one with the longest path), or null
getWorkspaceFolder(resource, flds) ==
    LET owners == {f \in Range(flds) : f.uri.scheme = resource.scheme
                                       /\ IsPrefix(fsPath(f.uri), fsPath(resource))}
    IN  IF owners = {} THEN Null
        ELSE CHOOSE f \in owners : \A g \in owners : Len(fsPath(g.uri)) <= Len(fsPath(f.uri))

----------------------------------------------------------------------------
\* Glob expressions

SrcGlob == <<"src", "**">>      \* "src/**"
LogGlob == <<"**", "a.log">>    \* "**/a.log"

\* The IExpression values globFn can return
Configs ==
    { [p \in {SrcGlob, LogGlob} |-> p = SrcGlob],   \* {"src/**": true, "**/a.log": false}
      [p \in {LogGlob} |-> TRUE] }                  \* {"**/a.log": true}

\* objects.equals(one, other) on expressions: same keys, same values
equals(one, other) ==
    /\ DOMAIN one = DOMAIN other
    /\ \A p \in DOMAIN one : one[p] = other[p]

\* objects.clone(obj): a new object with the same keys and values
clone(obj) == [p \in DOMAIN obj |-> obj[p]]

RECURSIVE GlobMatch(_, _)
\* whether a glob pattern matches a path, segment by segment
GlobMatch(pat, path) ==
    IF pat = <<>> THEN path = <<>>
    ELSE IF Head(pat) = "**"
         THEN \/ GlobMatch(Tail(pat), path)
              \/ path # <<>> /\ GlobMatch(pat, Tail(path))
         ELSE /\ path # <<>>
              /\ Head(pat) = "*" \/ Head(pat) = Head(path)
              /\ GlobMatch(Tail(pat), Tail(path))

\* glob.parse(expression): a function object over the patterns that are not
\* switched off. Every call creates a new object, so the instance stored for
\* a key is replaced exactly when the map's set is called for that key.
parse(expression) ==
    [globs |-> {p \in DOMAIN expression : expression[p] # FALSE}]

\* parsedExpression(path): the pattern that matches, or null
Apply(parsedExpression, path) ==
    LET hits == {p \in parsedExpression.globs : GlobMatch(p, path)}
    IN  IF hits = {} THEN Null ELSE [pattern |-> CHOOSE p \in hits : TRUE]

----------------------------------------------------------------------------
\* Maps

MapSet(map, key, value) == [k \in DOMAIN map \cup {key} |-> IF k = key THEN value ELSE map[k]]

MapHas(map, key) == key \in DOMAIN map

EmptyMap == [k \in {} |-> Null]

----------------------------------------------------------------------------
\* updateExcludes

RECURSIVE AddExcludes_OnlyIfMissing(_, _, _, _)
\* AddExcludes without the objects.equals comparison: a stored root is never refreshed
AddExcludes_OnlyIfMissing(i, flds, glob, st) ==
    IF i > Len(flds) THEN st
    ELSE LET folder == flds[i]
             key == toString(folder.uri)
             rootExcludes == glob[key]
         IN  IF ~MapHas(st.config, key)
             THEN AddExcludes_OnlyIfMissing(i + 1, flds, glob,
                      [changed |-> TRUE,
                       parsed  |-> MapSet(st.parsed, key, parse(rootExcludes)),
                       config  |-> MapSet(st.config, key, clone(rootExcludes)),
                       set     |-> st.set \cup {key},
                       deleted |-> st.deleted])
             ELSE AddExcludes_OnlyIfMissing(i + 1, flds, glob, st)

RECURSIVE AddExcludes(_, _, _, _)
\* "Add excludes per workspaces that got added": the forEach over the folders,
\* from the i-th on. st holds both maps, the changed flag, and the keys the
\* maps' set and delete were called for.
AddExcludes(i, flds, glob, st) ==
    IF i > Len(flds) THEN st
    ELSE LET folder == flds[i]
             key == toString(folder.uri)
             rootExcludes == glob[key]
         IN  IF \/ ~MapHas(st.config, key)
                \/ ~equals(st.config[key], rootExcludes)
             THEN AddExcludes(i + 1, flds, glob,
                      [changed |-> TRUE,
                       parsed  |-> MapSet(st.parsed, key, parse(rootExcludes)),
                       config  |-> MapSet(st.config, key, clone(rootExcludes)),
                       set     |-> st.set \cup {key},
                       deleted |-> st.deleted])
             ELSE AddExcludes(i + 1, flds, glob, st)

\* RemoveExcludes deleting from the config map only
RemoveExcludes_ConfigOnly(flds, st) ==
    LET gone == {root \in DOMAIN st.config :
                    /\ root # NO_ROOT
                    /\ getWorkspaceFolder(URIparse(root), flds) = Null}
    IN  [changed |-> st.changed \/ gone # {},
         parsed  |-> st.parsed,
         config  |-> [k \in DOMAIN st.config \ gone |-> st.config[k]],
         set     |-> st.set,
         deleted |-> st.deleted \cup gone]

\* RemoveExcludes without the "always keep this one" return for NO_ROOT
RemoveExcludes_NoGuard(flds, st) ==
    LET gone == {root \in DOMAIN st.config :
                    \/ root = NO_ROOT
                    \/ getWorkspaceFolder(URIparse(root), flds) = Null}
    IN  [changed |-> st.changed \/ gone # {},
         parsed  |-> [k \in DOMAIN st.parsed \ gone |-> st.parsed[k]],
         config  |-> [k \in DOMAIN st.config \ gone |-> st.config[k]],
         set     |-> st.set,
         deleted |-> st.deleted \cup gone]

\* "Remove excludes per workspace no longer present": the forEach over the
\* stored roots, deleting those getWorkspaceFolder does not resolve
RemoveExcludes(flds, st) ==
    LET gone == {root \in DOMAIN st.config :
                    /\ root # NO_ROOT
                    /\ getWorkspaceFolder(URIparse(root), flds) = Null}
    IN  [changed |-> st.changed \/ gone # {},
         parsed  |-> [k \in DOMAIN st.parsed \ gone |-> st.parsed[k]],
         config  |-> [k \in DOMAIN st.config \ gone |-> st.config[k]],
         set     |-> st.set,
         deleted |-> st.deleted \cup gone]

\* SetGlobalExcludes without the equality gate: parses and stores every time
SetGlobalExcludes_AlwaysSet(glob, st) ==
    LET globalExcludes == glob[NO_ROOT]
    IN  [changed |-> TRUE,
         parsed  |-> MapSet(st.parsed, NO_ROOT, parse(globalExcludes)),
         config  |-> MapSet(st.config, NO_ROOT, clone(globalExcludes)),
         set     |-> st.set \cup {NO_ROOT},
         deleted |-> st.deleted]

\* "Always set for resources outside root as well"
SetGlobalExcludes(glob, st) ==
    LET globalExcludes == glob[NO_ROOT]
    IN  IF \/ ~MapHas(st.config, NO_ROOT)
           \/ ~equals(st.config[NO_ROOT], globalExcludes)
        THEN [changed |-> TRUE,
              parsed  |-> MapSet(st.parsed, NO_ROOT, parse(globalExcludes)),
              config  |-> MapSet(st.config, NO_ROOT, clone(globalExcludes)),
              set     |-> st.set \cup {NO_ROOT},
              deleted |-> st.deleted]
        ELSE st

\* Fire without the changed test
Fire_Always(fromEvent, changed) == IF fromEvent THEN 1 ELSE 0

\* Fire without the fromEvent test
Fire_IgnoreFromEvent(fromEvent, changed) == IF changed THEN 1 ELSE 0

\* The number of _onExpressionChange.fire() calls of one updateExcludes
Fire(fromEvent, changed) == IF fromEvent /\ changed THEN 1 ELSE 0

\* updateExcludes firing as soon as the per-folder loop has changed something,
\* before the removals and before NO_ROOT is set
UpdateExcludes_FiresEarly(fromEvent, flds, glob, parsedMap, configMap) ==
    LET st0 == [changed |-> FALSE, parsed |-> parsedMap, config |-> configMap,
                set |-> {}, deleted |-> {}]
        st1 == AddExcludes(1, flds, glob, st0)
        st2 == RemoveExcludes(flds, st1)
        st3 == SetGlobalExcludes(glob, st2)
    IN  [parsed  |-> st3.parsed,
         config  |-> st3.config,
         changed |-> st3.changed,
         set     |-> st3.set,
         deleted |-> st3.deleted,
         fired   |-> Fire(fromEvent, st3.changed),
         seen    |-> IF Fire(fromEvent, st3.changed) = 0 THEN EmptyMap
                     ELSE IF st1.changed THEN st1.parsed ELSE st3.parsed]

\* updateExcludes(fromEvent) on the given workspace folders and globFn answers:
\* the maps it leaves, its changed flag, how often it fired, and the parsed
\* expressions in place when it fired (what a listener's matches call reads)
UpdateExcludes(fromEvent, flds, glob, parsedMap, configMap) ==
    LET st0 == [changed |-> FALSE, parsed |-> parsedMap, config |-> configMap,
                set |-> {}, deleted |-> {}]
        st1 == AddExcludes(1, flds, glob, st0)
        st2 == RemoveExcludes(flds, st1)
        st3 == SetGlobalExcludes(glob, st2)
    IN  [parsed  |-> st3.parsed,
         config  |-> st3.config,
         changed |-> st3.changed,
         set     |-> st3.set,
         deleted |-> st3.deleted,
         fired   |-> Fire(fromEvent, st3.changed),
         seen    |-> IF Fire(fromEvent, st3.changed) > 0 THEN st3.parsed ELSE EmptyMap]

----------------------------------------------------------------------------
\* matches

RECURSIVE CommonPrefixLen(_, _)
CommonPrefixLen(a, b) ==
    IF a = <<>> \/ b = <<>> \/ Head(a) # Head(b) THEN 0
    ELSE 1 + CommonPrefixLen(Tail(a), Tail(b))

\* paths.relative(from, to): ".." for what is left of from after the common
\* prefix, then what is left of to
relative(from, to) ==
    LET i == CommonPrefixLen(from, to)
    IN  [n \in 1..(Len(from) - i) |-> ".."] \o SubSeq(to, i + 1, Len(to))

\* paths.normalize(path): "." segments dropped, and "." for the empty path
normalize(path) ==
    LET kept == SelectSeq(path, LAMBDA seg : seg # ".")
    IN  IF kept = <<>> THEN <<".">> ELSE kept

\* matches testing the absolute path also for a resource of a workspace folder
Matches_AbsolutePath(resource, flds, parsedMap) ==
    LET folder == getWorkspaceFolder(resource, flds)
        key == IF folder # Null /\ MapHas(parsedMap, toString(folder.uri))
               THEN toString(folder.uri)
               ELSE NO_ROOT
        resourcePathToMatch == fsPath(resource)
    IN  [op       |-> "matches",
         resource |-> resource,
         key      |-> key,
         path     |-> resourcePathToMatch,
         threw    |-> ~MapHas(parsedMap, key),
         value    |-> /\ MapHas(parsedMap, key)
                      /\ Apply(parsedMap[key], resourcePathToMatch) # Null]

\* matches taking the path below the filesystem root for a resource outside
\* every workspace folder
Matches_OutsideRelative(resource, flds, parsedMap) ==
    LET folder == getWorkspaceFolder(resource, flds)
        key == IF folder # Null /\ MapHas(parsedMap, toString(folder.uri))
               THEN toString(folder.uri)
               ELSE NO_ROOT
        resourcePathToMatch ==
            IF folder # Null
            THEN normalize(relative(fsPath(folder.uri), fsPath(resource)))
            ELSE normalize(relative(<<"">>, fsPath(resource)))
    IN  [op       |-> "matches",
         resource |-> resource,
         key      |-> key,
         path     |-> resourcePathToMatch,
         threw    |-> ~MapHas(parsedMap, key),
         value    |-> /\ MapHas(parsedMap, key)
                      /\ Apply(parsedMap[key], resourcePathToMatch) # Null]

\* matches also consulting the NO_ROOT expression for a resource of a folder
Matches_MergeGlobal(resource, flds, parsedMap) ==
    LET folder == getWorkspaceFolder(resource, flds)
        key == IF folder # Null /\ MapHas(parsedMap, toString(folder.uri))
               THEN toString(folder.uri)
               ELSE NO_ROOT
        resourcePathToMatch ==
            IF folder # Null
            THEN normalize(relative(fsPath(folder.uri), fsPath(resource)))
            ELSE fsPath(resource)
    IN  [op       |-> "matches",
         resource |-> resource,
         key      |-> key,
         path     |-> resourcePathToMatch,
         threw    |-> ~MapHas(parsedMap, key),
         value    |-> \/ /\ MapHas(parsedMap, key)
                         /\ Apply(parsedMap[key], resourcePathToMatch) # Null
                      \/ /\ MapHas(parsedMap, NO_ROOT)
                         /\ Apply(parsedMap[NO_ROOT], resourcePathToMatch) # Null]

\* matches taking the relative path only when the folder's own expression is used
Matches_RawOnFallback(resource, flds, parsedMap) ==
    LET folder == getWorkspaceFolder(resource, flds)
        key == IF folder # Null /\ MapHas(parsedMap, toString(folder.uri))
               THEN toString(folder.uri)
               ELSE NO_ROOT
        resourcePathToMatch ==
            IF folder # Null /\ key # NO_ROOT
            THEN normalize(relative(fsPath(folder.uri), fsPath(resource)))
            ELSE fsPath(resource)
    IN  [op       |-> "matches",
         resource |-> resource,
         key      |-> key,
         path     |-> resourcePathToMatch,
         threw    |-> ~MapHas(parsedMap, key),
         value    |-> /\ MapHas(parsedMap, key)
                      /\ Apply(parsedMap[key], resourcePathToMatch) # Null]

\* matches(resource): the key whose parsed expression is used, the path it is
\* given, and the outcome (calling an undefined expression throws)
Matches(resource, flds, parsedMap) ==
    LET folder == getWorkspaceFolder(resource, flds)
        key == IF folder # Null /\ MapHas(parsedMap, toString(folder.uri))
               THEN toString(folder.uri)
               ELSE NO_ROOT
        resourcePathToMatch ==
            IF folder # Null
            THEN normalize(relative(fsPath(folder.uri), fsPath(resource)))
            ELSE fsPath(resource)
    IN  [op       |-> "matches",
         resource |-> resource,
         key      |-> key,
         path     |-> resourcePathToMatch,
         threw    |-> ~MapHas(parsedMap, key),
         value    |-> /\ MapHas(parsedMap, key)
                      /\ Apply(parsedMap[key], resourcePathToMatch) # Null]

----------------------------------------------------------------------------
\* ResourceContextKey

\* The value of a context key that is not set: the RawContextKey default
Undefined == [undefined |-> TRUE]

\* contextKey.set(value)
KeyValue(value) == [value |-> value]

\* The URIs and the null the context key is set to
KeyResources ==
    { Null,
      FileURI(<<"", "ws", "a.log">>),
      FileURI(<<"", "ws", "src", "file.txt">>),
      [scheme |-> "untitled", path |-> <<"", "ws", "a.log">>] }

\* basename(path): the last segment
basename(path) == path[Len(path)]

\* paths.extname(path): the last segment from its last dot on
extname(path) ==
    CASE basename(path) = "a.log"    -> ".log"
      [] basename(path) = "file.txt" -> ".txt"
      [] OTHER                       -> ""

\* modeService.getModeIdByFilenameOrFirstLine(path): the language of the extension
getModeIdByFilenameOrFirstLine(path) ==
    CASE extname(path) = ".log" -> "log"
      [] extname(path) = ".txt" -> "plaintext"
      [] OTHER                  -> "null"

\* value && f: value itself when it is null
AndThen(value, result) == IF value = Null THEN KeyValue(Null) ELSE KeyValue(result)

\* set(value)
KeySet(value) ==
    /\ resourceKey' = KeyValue(value)
    /\ schemeKey' = AndThen(value, IF value = Null THEN "" ELSE value.scheme)
    /\ filenameKey' = AndThen(value, IF value = Null THEN "" ELSE basename(fsPath(value)))
    /\ langIdKey' = AndThen(value, IF value = Null THEN ""
                                   ELSE getModeIdByFilenameOrFirstLine(fsPath(value)))
    /\ extensionKey' = AndThen(value, IF value = Null THEN "" ELSE extname(fsPath(value)))
    /\ ui' = [op |-> "set"]
    /\ UNCHANGED <<widgetVars, vars>>

\* reset(): _schemeKey, _langIdKey, _resourceKey, _langIdKey again, _extensionKey
KeyReset ==
    /\ schemeKey' = Undefined
    /\ langIdKey' = Undefined
    /\ resourceKey' = Undefined
    /\ extensionKey' = Undefined
    /\ ui' = [op |-> "reset"]
    /\ UNCHANGED <<filenameKey, widgetVars, vars>>

----------------------------------------------------------------------------
\* EmbeddedCodeEditorWidget and EmbeddedDiffEditorWidget

OptionKeys == {"fontSize", "wordWrap"}

OptionValues == {"small", "large"}

\* The IEditorOptions objects: some of the options, each with a value
OptionSets == UNION {[ks -> OptionValues] : ks \in SUBSET OptionKeys}

NoOptions == [k \in {} |-> "small"]

\* objects.mixin(destination, source, true): the source's values laid over
\* the destination's
mixin(destination, source) ==
    [k \in DOMAIN destination \cup DOMAIN source |->
        IF k \in DOMAIN source THEN source[k] ELSE destination[k]]

\* super.updateOptions(newOptions) of CodeEditor and DiffEditorWidget: the
\* new options mixed into the editor's raw options
superUpdateOptions(rawOptions, newOptions) == mixin(rawOptions, newOptions)

\* _onParentConfigurationChanged with the two super.updateOptions calls swapped
OnParentConfigurationChanged_OverlayFirst(parentRaw, overwrite) == <<overwrite, parentRaw>>

\* _onParentConfigurationChanged(e): the option sets passed to
\* super.updateOptions, in order
OnParentConfigurationChanged(parentRaw, overwrite) == <<parentRaw, overwrite>>

RECURSIVE ApplyAll(_, _)
\* the editor's raw options after super.updateOptions on each of the sets
ApplyAll(rawOptions, sets) ==
    IF sets = <<>> THEN rawOptions
    ELSE ApplyAll(superUpdateOptions(rawOptions, Head(sets)), Tail(sets))

\* The parent editor's options are updated with newOptions and its
\* onDidChangeConfiguration fires
ParentConfigurationChange(newOptions) ==
    /\ parentOptions' = mixin(parentOptions, newOptions)
    /\ LET applied == IF registered
                      THEN OnParentConfigurationChanged(parentOptions', overwriteOptions)
                      ELSE <<>>
       IN  /\ editorOptions' = ApplyAll(editorOptions, applied)
           /\ ui' = [op |-> "parent", applied |-> applied]
    /\ UNCHANGED <<widget, overwriteOptions, registered, keyVars, vars>>

\* updateOptions keeping only the new options instead of mixing them in
UpdateOptions_Replace(newOptions) ==
    /\ overwriteOptions' = newOptions
    /\ editorOptions' = superUpdateOptions(editorOptions, overwriteOptions')
    /\ ui' = [op |-> "updateOptions", given |-> newOptions, applied |-> <<overwriteOptions'>>]
    /\ UNCHANGED <<widget, parentOptions, registered, keyVars, vars>>

\* updateOptions(newOptions)
UpdateOptions(newOptions) ==
    /\ overwriteOptions' = mixin(overwriteOptions, newOptions)
    /\ editorOptions' = superUpdateOptions(editorOptions, overwriteOptions')
    /\ ui' = [op |-> "updateOptions", given |-> newOptions, applied |-> <<overwriteOptions'>>]
    /\ UNCHANGED <<widget, parentOptions, registered, keyVars, vars>>

\* dispose() of the widget: what was given to _register is disposed
WidgetDispose ==
    /\ registered
    /\ registered' = FALSE
    /\ ui' = [op |-> "disposeWidget", applied |-> <<>>]
    /\ UNCHANGED <<widget, parentOptions, overwriteOptions, editorOptions, keyVars, vars>>

----------------------------------------------------------------------------
\* The matcher and its environment

Listeners == {"onExpressionChange", "onDidChangeConfiguration", "onDidChangeWorkspaceFolders"}

RECURSIVE ListsOver(_, _)
\* the lists of at most n distinct elements of S
ListsOver(S, n) ==
    IF n = 0 THEN {<<>>}
    ELSE LET shorter == ListsOver(S, n - 1)
         IN  shorter \cup {Append(l, x) : l \in shorter, x \in S}

FolderLists ==
    {l \in ListsOver({WorkspaceFolder(r) : r \in Roots}, MaxFolders) :
        \A i, j \in DOMAIN l : i # j => l[i] # l[j]}

\* The record of one event: whether shouldUpdate(e) held (TRUE where it is not
\* asked), whether updateExcludes ran, and what it did
Pass(event, relevant, ran, res) ==
    [op |-> event, relevant |-> relevant, ran |-> ran, changed |-> res.changed,
     fired |-> res.fired, set |-> res.set, deleted |-> res.deleted, seen |-> res.seen]

Skipped == [changed |-> FALSE, fired |-> 0, set |-> {}, deleted |-> {}, seen |-> EmptyMap]

\* new ResourceGlobMatcher(globFn, shouldUpdate, ...): empty maps, the emitter,
\* updateExcludes(false), registerListeners()
Init ==
    /\ folders \in FolderLists
    /\ settings \in [Keys -> Configs]
    /\ toUnbind = Listeners
    /\ LET res == UpdateExcludes(FALSE, folders, settings, EmptyMap, EmptyMap)
       IN  /\ mapRootToParsedExpression = res.parsed
           /\ mapRootToExpressionConfig = res.config
           /\ last = Pass("constructor", TRUE, TRUE, res)
    \* beside it a context key and a widget, newly made and left alone
    /\ resourceKey = Undefined
    /\ schemeKey = Undefined
    /\ filenameKey = Undefined
    /\ langIdKey = Undefined
    /\ extensionKey = Undefined
    /\ widget = "EmbeddedCodeEditorWidget"
    /\ parentOptions = NoOptions
    /\ overwriteOptions = NoOptions
    /\ editorOptions = NoOptions
    /\ registered = TRUE
    /\ ui = [op |-> "new", applied |-> <<NoOptions>>]

\* What a listener that calls updateExcludes(true) does when run holds
Synchronize(event, relevant, run) ==
    IF run
    THEN LET res == UpdateExcludes(TRUE, folders', settings',
                                   mapRootToParsedExpression, mapRootToExpressionConfig)
         IN  /\ mapRootToParsedExpression' = res.parsed
             /\ mapRootToExpressionConfig' = res.config
             /\ last' = Pass(event, relevant, TRUE, res)
    ELSE /\ UNCHANGED <<mapRootToParsedExpression, mapRootToExpressionConfig>>
         /\ last' = Pass(event, relevant, FALSE, Skipped)

\* The configuration listener without the shouldUpdate(e) test
ConfigurationChange_AlwaysUpdate(key, config, relevant) ==
    /\ settings' = [settings EXCEPT ![key] = config]
    /\ UNCHANGED <<folders, toUnbind, uiVars>>
    /\ Synchronize("configuration", relevant, "onDidChangeConfiguration" \in toUnbind)

\* The configuration service changes what globFn(key) returns to config and
\* fires onDidChangeConfiguration(e), with shouldUpdate(e) = relevant
ConfigurationChange(key, config, relevant) ==
    /\ settings' = [settings EXCEPT ![key] = config]
    /\ UNCHANGED <<folders, toUnbind, uiVars>>
    /\ Synchronize("configuration", relevant,
                   "onDidChangeConfiguration" \in toUnbind /\ relevant)

\* The folder listener never pushed to toUnbind, so never unsubscribed
WorkspaceFoldersChange_NotUnbound(flds) ==
    /\ flds # folders
    /\ folders' = flds
    /\ UNCHANGED <<settings, toUnbind, uiVars>>
    /\ Synchronize("folders", TRUE, TRUE)

\* The workspace's folders become flds and onDidChangeWorkspaceFolders fires
WorkspaceFoldersChange(flds) ==
    /\ flds # folders
    /\ folders' = flds
    /\ UNCHANGED <<settings, toUnbind, uiVars>>
    /\ Synchronize("folders", TRUE, "onDidChangeWorkspaceFolders" \in toUnbind)

\* matches(resource)
MatchesCall(resource) ==
    /\ last' = Matches(resource, folders, mapRootToParsedExpression)
    /\ UNCHANGED <<folders, settings, mapRootToParsedExpression, mapRootToExpressionConfig,
                   toUnbind, uiVars>>

\* dispose()
Dispose ==
    /\ toUnbind' = {}
    /\ last' = [op |-> "dispose"]
    /\ UNCHANGED <<folders, settings, mapRootToParsedExpression, mapRootToExpressionConfig,
                   uiVars>>

----------------------------------------------------------------------------
\* Specifications

Next ==
    \/ \E key \in Keys, config \in Configs, relevant \in BOOLEAN :
           ConfigurationChange(key, config, relevant)
    \/ \E flds \in FolderLists : WorkspaceFoldersChange(flds)
    \/ \E resource \in Resources : MatchesCall(resource)
    \/ Dispose

\* The matcher and its environment
Spec == Init /\ [][Next]_allVars

\* new ResourceContextKey(...): the five keys bound, none set.
\* new Embedded...Widget(domElement, options, parentEditor, ...): the editor
\* built on the parent's raw configuration, the options laid over it, the
\* listener registered. Beside them a matcher on a workspace without folders,
\* left alone.
UIInit ==
    /\ resourceKey = Undefined
    /\ schemeKey = Undefined
    /\ filenameKey = Undefined
    /\ langIdKey = Undefined
    /\ extensionKey = Undefined
    /\ widget \in {"EmbeddedCodeEditorWidget", "EmbeddedDiffEditorWidget"}
    /\ parentOptions \in OptionSets
    /\ overwriteOptions \in OptionSets
    /\ editorOptions = superUpdateOptions(mixin(NoOptions, parentOptions), overwriteOptions)
    /\ registered = TRUE
    /\ ui = [op |-> "new", applied |-> <<overwriteOptions>>]
    /\ folders = <<>>
    /\ settings = [k \in Keys |-> [p \in {LogGlob} |-> TRUE]]
    /\ toUnbind = Listeners
    /\ LET res == UpdateExcludes(FALSE, folders, settings, EmptyMap, EmptyMap)
       IN  /\ mapRootToParsedExpression = res.parsed
           /\ mapRootToExpressionConfig = res.config
           /\ last = Pass("constructor", TRUE, TRUE, res)

UINext ==
    \/ \E value \in KeyResources : KeySet(value)
    \/ KeyReset
    \/ \E newOptions \in OptionSets : ParentConfigurationChange(newOptions)
    \/ \E newOptions \in OptionSets : UpdateOptions(newOptions)
    \/ WidgetDispose

\* The context key, the embedded widget and its parent editor
SpecUI == UIInit /\ [][UINext]_allVars

----------------------------------------------------------------------------
\* Properties

Events == {"configuration", "folders"}

\* the last operation was the constructor or an event, and updateExcludes ran
Synchronized == last.op \in Events \cup {"constructor"} /\ last.ran

\* the step is an event on which updateExcludes ran
EventPass == last'.op \in Events /\ last'.ran

FolderKeys(flds) == {toString(f.uri) : f \in Range(flds)}

CurrentKeys(flds) == FolderKeys(flds) \cup {NO_ROOT}

\* C1: in every reachable state the config map and the parsed-expression map
\* have the same keys, and the parsed expression stored for each key is what
\* parsing the stored config gives; so every matches call sees them in step.
C1_MapsInStep ==
    /\ DOMAIN mapRootToParsedExpression = DOMAIN mapRootToExpressionConfig
    /\ \A k \in DOMAIN mapRootToExpressionConfig :
           mapRootToParsedExpression[k].globs
               = {p \in DOMAIN mapRootToExpressionConfig[k] :
                     mapRootToExpressionConfig[k][p] = TRUE}

\* a folder change whose pass both stored and deleted entries
C1_Witness ==
    /\ last.op = "folders" /\ last.ran
    /\ last.set # {} /\ last.deleted # {}

\* C2: after every synchronization (constructor or event), every current
\* workspace root has a stored config equal to what globFn returns for it,
\* and NO_ROOT's stored config equals what globFn() returns.
C2_StoredIsFetched ==
    Synchronized =>
        \A k \in CurrentKeys(folders) :
            /\ k \in DOMAIN mapRootToExpressionConfig
            /\ DOMAIN mapRootToExpressionConfig[k] = DOMAIN settings[k]
            /\ \A p \in DOMAIN settings[k] : mapRootToExpressionConfig[k][p] = settings[k][p]

\* a relevant configuration event whose pass replaced a current root's config
C2_Witness ==
    /\ last.op = "configuration" /\ last.ran
    /\ \E k \in FolderKeys(folders) : k \in last.set

\* C3: after a synchronization no key other than NO_ROOT remains in either
\* map unless it is the key of a current workspace folder.
C3_OnlyCurrentRoots ==
    Synchronized =>
        /\ DOMAIN mapRootToExpressionConfig \subseteq CurrentKeys(folders)
        /\ DOMAIN mapRootToParsedExpression \subseteq CurrentKeys(folders)

\* C4: NO_ROOT is a key of both maps in every reachable state, and no pass
\* deletes it.
C4_NoRootKept ==
    /\ NO_ROOT \in DOMAIN mapRootToExpressionConfig
    /\ NO_ROOT \in DOMAIN mapRootToParsedExpression
    /\ last.op \in Events \cup {"constructor"} => NO_ROOT \notin last.deleted

\* all roots were removed, and the pass deleted their entries
C4_Witness ==
    /\ last.op = "folders" /\ last.ran
    /\ folders = <<>>
    /\ last.deleted # {}
    /\ NO_ROOT \in DOMAIN mapRootToExpressionConfig

\* every current key is stored with a config equal to what globFn returns now
AllEqual(flds, glob) ==
    \A k \in CurrentKeys(flds) :
        /\ k \in DOMAIN mapRootToExpressionConfig
        /\ equals(mapRootToExpressionConfig[k], glob[k])

\* C5: in a pass run on an event, a current key whose stored config equals
\* the fetched one keeps its config and its parsed expression instance (the
\* maps' set is not called for it); when that is so for every current key and
\* the workspace has the same roots as before, the maps are unchanged and
\* nothing is fired.
C5_EqualityGating ==
    [][EventPass =>
          /\ \A k \in CurrentKeys(folders') :
                 (/\ k \in DOMAIN mapRootToExpressionConfig
                  /\ equals(mapRootToExpressionConfig[k], settings'[k]))
                 => /\ k \notin last'.set
                    /\ k \in DOMAIN mapRootToExpressionConfig'
                    /\ mapRootToExpressionConfig'[k] = mapRootToExpressionConfig[k]
                    /\ mapRootToParsedExpression'[k] = mapRootToParsedExpression[k]
          /\ (AllEqual(folders', settings') /\ Range(folders') = Range(folders))
                 => /\ last'.fired = 0
                    /\ last'.set = {} /\ last'.deleted = {}
                    /\ UNCHANGED <<mapRootToExpressionConfig, mapRootToParsedExpression>>
      ]_vars

\* a relevant configuration event after which nothing had to change
C5_Witness ==
    /\ last.op = "configuration" /\ last.relevant /\ last.ran
    /\ ~last.changed /\ last.fired = 0
    /\ Len(folders) = MaxFolders

\* C6: a pass run on an event fires once when it added, replaced or removed
\* an entry, however many, and not at all otherwise.
C6_FiresOncePerChangedPass ==
    [][EventPass =>
          last'.fired =
              IF \/ mapRootToExpressionConfig' # mapRootToExpressionConfig
                 \/ mapRootToParsedExpression' # mapRootToParsedExpression
              THEN 1 ELSE 0
      ]_vars

\* a pass that changed several entries and fired once
C6_Witness ==
    /\ last.op \in Events /\ last.ran
    /\ Cardinality(last.set \cup last.deleted) >= 2
    /\ last.fired = 1

\* C7: the constructor's synchronization stores NO_ROOT and every workspace
\* root, so it always changes the maps, and fires nothing.
C7_ConstructorSilent ==
    last.op = "constructor" =>
        /\ last.ran /\ last.changed
        /\ last.set = CurrentKeys(folders)
        /\ last.fired = 0

\* constructed on a workspace of two folders
C7_Witness ==
    /\ last.op = "constructor"
    /\ Len(folders) = 2
    /\ DOMAIN mapRootToExpressionConfig = Keys

\* C8: a configuration event for which shouldUpdate returns false leaves
\* both maps unchanged and fires nothing.
C8_IrrelevantEventIgnored ==
    [][(last'.op = "configuration" /\ ~last'.relevant) =>
          /\ UNCHANGED <<mapRootToExpressionConfig, mapRootToParsedExpression>>
          /\ ~last'.ran
          /\ last'.fired = 0
      ]_vars

\* shouldUpdate returned false on a subscribed matcher although globFn now
\* returns another config for a current key
C8_Witness ==
    /\ last.op = "configuration" /\ ~last.relevant
    /\ "onDidChangeConfiguration" \in toUnbind
    /\ \E k \in CurrentKeys(folders) :
           /\ k \in DOMAIN mapRootToExpressionConfig
           /\ ~equals(mapRootToExpressionConfig[k], settings[k])

\* C9: once disposed, an event runs no synchronization, fires nothing and
\* leaves both maps as they were.
C9_DisposedIgnoresEvents ==
    [][(toUnbind = {} /\ last'.op \in Events) =>
          /\ UNCHANGED <<mapRootToExpressionConfig, mapRootToParsedExpression>>
          /\ ~last'.ran
          /\ last'.fired = 0
      ]_vars

\* a folder added after dispose has no entry
C9_Witness ==
    /\ toUnbind = {}
    /\ last.op = "folders"
    /\ ~(FolderKeys(folders) \subseteq DOMAIN mapRootToExpressionConfig)

\* the path of resource below root: what is left when root's path is taken
\* off the front, "." when nothing is left
BelowRoot(root, resource) ==
    LET rest == CHOOSE s \in {SubSeq(fsPath(resource), i, Len(fsPath(resource))) :
                                 i \in 1..(Len(fsPath(resource)) + 1)} :
                    fsPath(root) \o s = fsPath(resource)
    IN  IF rest = <<>> THEN <<".">> ELSE rest

\* C10: matches on a resource of a workspace folder that has a stored parsed
\* expression is what that expression gives on the resource's path relative
\* to the folder.
C10_MatchesRelativePath ==
    (last.op = "matches" /\ getWorkspaceFolder(last.resource, folders) # Null) =>
        LET root == getWorkspaceFolder(last.resource, folders).uri
        IN  toString(root) \in DOMAIN mapRootToParsedExpression =>
                /\ ~last.threw
                /\ last.value =
                       (\E p \in mapRootToParsedExpression[toString(root)].globs :
                            GlobMatch(p, BelowRoot(root, last.resource)))

\* /ws/src/file.txt matched by "src/**" of root /ws, which its absolute path is not
C10_Witness ==
    /\ last.op = "matches"
    /\ last.resource = FileURI(<<"", "ws", "src", "file.txt">>)
    /\ last.key = toString(FileURI(WsPath))
    /\ last.value
    /\ ~GlobMatch(SrcGlob, fsPath(last.resource))

\* the patterns a config switches on
Enabled(config) == {p \in DOMAIN config : config[p] = TRUE}

\* C11: matches on a resource outside every workspace folder is what the
\* NO_ROOT parsed expression gives on the resource's raw filesystem path; no
\* root's expression is used.
C11_OutsideUsesNoRootRawPath ==
    (last.op = "matches" /\ getWorkspaceFolder(last.resource, folders) = Null) =>
        /\ ~last.threw
        /\ last.key = NO_ROOT
        /\ last.value =
               (\E p \in Enabled(mapRootToExpressionConfig[NO_ROOT]) :
                    GlobMatch(p, last.resource.path))

\* /src/a.log is outside the workspace's folders and the global config is
\* "src/**", which its raw path does not match although "src/a.log" would
C11_Witness ==
    /\ last.op = "matches"
    /\ last.resource = FileURI(<<"", "src", "a.log">>)
    /\ folders # <<>>
    /\ SrcGlob \in Enabled(mapRootToExpressionConfig[NO_ROOT])
    /\ ~last.value
    /\ GlobMatch(SrcGlob, Tail(last.resource.path))

\* the resources of a workspace folder that has a stored parsed expression
UnderStoredRoot(resource) ==
    /\ getWorkspaceFolder(resource, folders) # Null
    /\ toString(getWorkspaceFolder(resource, folders).uri) \in DOMAIN mapRootToParsedExpression

\* C12: matches on a resource of a folder with a stored entry depends on that
\* folder's config alone: it holds only if a pattern switched on in the
\* folder's config matches, and it is the same whatever the NO_ROOT entry is.
C12_NoMergeWithGlobal ==
    /\ (last.op = "matches" /\ UnderStoredRoot(last.resource)) =>
           LET root == getWorkspaceFolder(last.resource, folders).uri
           IN  last.value =
                   (\E p \in Enabled(mapRootToExpressionConfig[toString(root)]) :
                        GlobMatch(p, last.path))
    /\ \A resource \in Resources, config \in Configs :
           UnderStoredRoot(resource) =>
               Matches(resource, folders, mapRootToParsedExpression).value
                   = Matches(resource, folders,
                             MapSet(mapRootToParsedExpression, NO_ROOT, parse(config))).value

\* /ws/a.log under root /ws whose config switches "**/a.log" off, while the
\* global config switches it on: no match
C12_Witness ==
    /\ last.op = "matches"
    /\ last.resource = FileURI(<<"", "ws", "a.log">>)
    /\ last.key = toString(FileURI(WsPath))
    /\ LogGlob \in Enabled(mapRootToExpressionConfig[NO_ROOT])
    /\ LogGlob \notin Enabled(mapRootToExpressionConfig[last.key])
    /\ ~last.value

\* C14: when the resource has an owning workspace folder without a stored
\* parsed expression, matches uses the NO_ROOT expression on the path relative
\* to that folder.
C14_FallbackUsesRelativePath ==
    (/\ last.op = "matches"
     /\ getWorkspaceFolder(last.resource, folders) # Null
     /\ ~UnderStoredRoot(last.resource)) =>
        LET root == getWorkspaceFolder(last.resource, folders).uri
        IN  /\ last.key = NO_ROOT
            /\ ~last.threw
            /\ last.value =
                   (\E p \in Enabled(mapRootToExpressionConfig[NO_ROOT]) :
                        GlobMatch(p, BelowRoot(root, last.resource)))

\* /ws became a folder after dispose; /ws/src/file.txt matches the global
\* "src/**" through its relative path, which its raw path would not
C14_Witness ==
    /\ last.op = "matches"
    /\ toUnbind = {}
    /\ last.resource = FileURI(<<"", "ws", "src", "file.txt">>)
    /\ getWorkspaceFolder(last.resource, folders) # Null
    /\ ~UnderStoredRoot(last.resource)
    /\ last.value
    /\ ~GlobMatch(SrcGlob, fsPath(last.resource))

\* what matches is to give for resource once the maps hold what globFn returns
Expected(resource) ==
    LET folder == getWorkspaceFolder(resource, folders)
    IN  IF folder # Null
        THEN \E p \in Enabled(settings[toString(folder.uri)]) :
                 GlobMatch(p, BelowRoot(folder.uri, resource))
        ELSE \E p \in Enabled(settings[NO_ROOT]) : GlobMatch(p, fsPath(resource))

\* C15: when onExpressionChange is fired the pass is complete: a matches call
\* made by the listener uses only the keys of current folders and NO_ROOT and
\* gives what the configs globFn returned in this pass give.
C15_FiredAfterPassComplete ==
    (last.op \in Events /\ last.fired > 0) =>
        /\ last.fired = 1
        /\ \A resource \in Resources :
               LET m == Matches(resource, folders, last.seen)
               IN  /\ ~m.threw
                   /\ m.key \in CurrentKeys(folders)
                   /\ m.value = Expected(resource)

\* a fired pass that stored a root's entry, deleted another and replaced NO_ROOT
C15_Witness ==
    /\ last.op = "folders" /\ last.fired = 1
    /\ NO_ROOT \in last.set
    /\ last.set \cap RootKeys # {}
    /\ last.deleted # {}

\* C16: after reset() each of the five context keys is back at its default.
C16_ResetClearsAllKeys ==
    ui.op = "reset" =>
        /\ resourceKey = Undefined
        /\ schemeKey = Undefined
        /\ filenameKey = Undefined
        /\ langIdKey = Undefined
        /\ extensionKey = Undefined

WidgetOps == {"new", "parent", "updateOptions", "disposeWidget"}

\* the overlay's value is in the editor, and in the last option set applied, for
\* every option of the overlay
OverlayWins ==
    \A k \in DOMAIN overwriteOptions :
        /\ k \in DOMAIN editorOptions
        /\ editorOptions[k] = overwriteOptions[k]
        /\ (ui.op \in WidgetOps /\ ui.applied # <<>>) =>
               /\ k \in DOMAIN ui.applied[Len(ui.applied)]
               /\ ui.applied[Len(ui.applied)][k] = overwriteOptions[k]

\* the overlay is the one before with the options given to updateOptions laid
\* over it, and is the one before in every other step
OverlayAccumulates ==
    /\ DOMAIN overwriteOptions' =
           DOMAIN overwriteOptions
               \cup (IF ui'.op = "updateOptions" THEN DOMAIN ui'.given ELSE {})
    /\ \A k \in DOMAIN overwriteOptions' :
           overwriteOptions'[k] =
               IF ui'.op = "updateOptions" /\ k \in DOMAIN ui'.given
               THEN ui'.given[k]
               ELSE overwriteOptions[k]

\* C17: whatever parent configuration changes and updateOptions calls have
\* happened, every option of the accumulated overlay has the overlay's value
\* in the last option set applied and in the editor, and the overlay loses no
\* option given earlier.
C17_OverlayWins == []OverlayWins /\ [][OverlayAccumulates]_allVars

\* a parent change on a widget whose overlay holds both options, each with
\* another value than the parent's
C17_Witness ==
    /\ ui.op = "parent" /\ registered
    /\ DOMAIN overwriteOptions = OptionKeys
    /\ DOMAIN parentOptions = OptionKeys
    /\ \A k \in OptionKeys : parentOptions[k] # overwriteOptions[k]

\* what a parent configuration change leaves: the parent's raw configuration
\* applied first and the overlay second, the parent's value in the editor for
\* every option the overlay does not hold; nothing applied once disposed
ParentFollowed ==
    ui.op = "parent" =>
        IF registered
        THEN /\ ui.applied = <<parentOptions, overwriteOptions>>
             /\ \A k \in DOMAIN parentOptions \ DOMAIN overwriteOptions :
                    /\ k \in DOMAIN editorOptions
                    /\ editorOptions[k] = parentOptions[k]
        ELSE ui.applied = <<>>

\* C18: a parent configuration change makes the widget apply the parent's raw
\* configuration and then its overlay, so the editor has the parent's value
\* for every option outside the overlay; a disposed widget's editor is left
\* as it was.
C18_FollowsParent ==
    /\ []ParentFollowed
    /\ [][(~registered /\ ui'.op = "parent") => editorOptions' = editorOptions]_allVars

\* a parent change that reached the editor for an option outside the overlay
\* while the overlay holds another option against the parent's value
C18_Witness ==
    /\ ui.op = "parent" /\ registered
    /\ DOMAIN parentOptions = OptionKeys
    /\ \E k \in OptionKeys :
           /\ k \notin DOMAIN overwriteOptions
           /\ editorOptions[k] = parentOptions[k]
    /\ \E k \in DOMAIN overwriteOptions : parentOptions[k] # overwriteOptions[k]

====
